---- MODULE Spec2Model ----
(***************************************************************************)
(* Model of the /analyze endpoint of src/main.py: the summary heuristic,   *)
(* the action extractor and the request handler that calls both.           *)
(*                                                                         *)
(* A Python str is a sequence of characters; a character is a one-letter   *)
(* TLA+ string, except the two non-ASCII characters the model needs, which *)
(* are named tokens (Bullet for U+2022, NBSP for U+00A0).                  *)
(***************************************************************************)
EXTENDS Integers, Sequences, FiniteSets, TLC

VARIABLES
    action_keywords,  \* the module-level list of main.py:96-100
    workers,          \* per thread-pool worker: the request it is handling
    responses         \* every (request, response) pair sent so far

vars == <<action_keywords, workers, responses>>

----------------------------------------------------------------------------
(* Characters *)

Bullet == "bullet"
NBSP == "nbsp"

UpperLetters ==
    <<"A","B","C","D","E","F","G","H","I","J","K","L","M",
      "N","O","P","Q","R","S","T","U","V","W","X","Y","Z">>
LowerLetters ==
    <<"a","b","c","d","e","f","g","h","i","j","k","l","m",
      "n","o","p","q","r","s","t","u","v","w","x","y","z">>

UpperSet == {UpperLetters[i] : i \in 1..26}
LowerSet == {LowerLetters[i] : i \in 1..26}

\* [a-zA-Z] of the two patterns of _extract_actions
IsLetter(c) == c \in UpperSet \cup LowerSet

LowerMap == [c \in UpperSet |-> LowerLetters[CHOOSE i \in 1..26 : UpperLetters[i] = c]]

\* str.lower() on one character
LowerChar(c) == IF c \in UpperSet THEN LowerMap[c] ELSE c

\* str.lower()
Lower(s) == [i \in 1..Len(s) |-> LowerChar(s[i])]

\* The characters str.isspace() and the pattern \s hold for, among those modelled
WhiteSpace == {" ", "\t", "\n", "\r", NBSP}
IsSpace(c) == c \in WhiteSpace

\* The line boundaries of str.splitlines(), among the characters modelled
LineBreaks == {"\n", "\r"}

\* The argument of l.strip(" -•\t")
BulletChars == {" ", "-", Bullet, "\t"}

\* The class [.?!] of the sentence pattern
SentenceEnd == {".", "?", "!"}

----------------------------------------------------------------------------
(* str helpers *)

\* the first index >= i of s whose character is not in chars (Len(s)+1 if none)
SkipLeft(s, i, chars) ==
    CHOOSE j \in i..(Len(s) + 1) :
        /\ j = Len(s) + 1 \/ s[j] \notin chars
        /\ \A k \in i..(j - 1) : s[k] \in chars

\* the last index <= i of s whose character is not in chars (0 if none)
SkipRight(s, i, chars) ==
    CHOOSE j \in 0..i :
        /\ j = 0 \/ s[j] \notin chars
        /\ \A k \in (j + 1)..i : s[k] \in chars

\* str.strip(chars)
StripChars(s, chars) ==
    LET lo == SkipLeft(s, 1, chars)
        hi == SkipRight(s, Len(s), chars)
    IN  IF lo > hi THEN <<>> ELSE SubSeq(s, lo, hi)

\* str.strip()
Strip(s) == StripChars(s, WhiteSpace)

\* s[:n]
Take(s, n) == SubSeq(s, 1, IF Len(s) < n THEN Len(s) ELSE n)

\* str.startswith(p)
StartsWith(s, p) == Len(s) >= Len(p) /\ SubSeq(s, 1, Len(p)) = p

\* p in s
Contains(s, p) ==
    \E i \in 1..(Len(s) - Len(p) + 1) : s[i] = p[1] /\ SubSeq(s, i, i + Len(p) - 1) = p

MinOf(S) == CHOOSE x \in S : \A y \in S : x <= y

RECURSIVE SplitFrom(_, _)
SplitFrom(s, i) ==
    IF i > Len(s) THEN <<>>
    ELSE LET B == {j \in i..Len(s) : s[j] \in LineBreaks}
         IN  IF B = {} THEN <<SubSeq(s, i, Len(s))>>
             ELSE LET j == MinOf(B)
                      next == IF s[j] = "\r" /\ j < Len(s) /\ s[j + 1] = "\n"
                              THEN j + 2 ELSE j + 1
                  IN  <<SubSeq(s, i, j - 1)>> \o SplitFrom(s, next)

\* str.splitlines(): the lines without their line breaks, "\r\n" one break,
\* no empty last line after a final break
SplitLines(s) == SplitFrom(s, 1)

\* re.sub(r"\s+", " ", s): every maximal run of whitespace becomes one space
SubWhitespace(s) ==
    LET P == [i \in 1..Len(s) |-> <<s[i], i = 1 \/ ~IsSpace(s[i - 1])>>]
        RunStartOrText(p) == ~IsSpace(p[1]) \/ p[2]
        K == SelectSeq(P, RunStartOrText)
    IN  [i \in 1..Len(K) |-> IF IsSpace(K[i][1]) THEN " " ELSE K[i][1]]

----------------------------------------------------------------------------
(* _heuristic_summary, main.py:83-93 *)

SummaryCap == 150
SentenceMin == 10
SentenceMax == 200

NoContent ==
    <<"N","o"," ","c","o","n","t","e","n","t"," ","p","r","o","v","i","d","e","d",".">>
TeluguPrefix == <<"[","T","e","l","u","g","u","]"," ">>
En == <<"e","n">>
Te == <<"t","e">>

\* The value None of an Optional[str]
None == <<"None">>

\* `x or "en"`: None and "" are falsy
OrEn(lang) == IF lang = None \/ lang = <<>> THEN En ELSE lang

\* re.search(r"([^.?!]{10,200}[.?!])", s): group 1 of the leftmost match, <<>>
\* when there is none. A match starting at i takes k characters outside the
\* class, 10 <= k <= 200, and then one of the class: k is the distance to the
\* next character of the class, so no shorter or longer k matches at i.
SearchSentence(s) ==
    LET P == {j \in 1..Len(s) : s[j] \in SentenceEnd}
        End(i) == {p \in P : /\ p - i >= SentenceMin
                              /\ p - i <= SentenceMax
                              /\ \A q \in P : ~(i <= q /\ q < p)}
        Starts == {i \in 1..Len(s) : End(i) # {}}
    IN  IF Starts = {} THEN <<>>
        ELSE LET i == MinOf(Starts)
             IN  SubSeq(s, i, CHOOSE p \in End(i) : TRUE)

\* Variant: the emptiness test made before the text is trimmed
HeuristicSummaryUntrimmed(text, lang) ==
    LET collapsed == SubWhitespace(text)
        cleaned == Strip(collapsed)
        prefix == IF StartsWith(Lower(OrEn(lang)), Te) THEN TeluguPrefix ELSE <<>>
        m == SearchSentence(cleaned)
        base == IF m # <<>> THEN Strip(m) ELSE Strip(Take(cleaned, SummaryCap))
    IN  IF collapsed = <<>> THEN NoContent ELSE prefix \o base

\* Variant: the language compared without lower-casing it
HeuristicSummaryCaseSensitive(text, lang) ==
    LET cleaned == Strip(SubWhitespace(text))
        prefix == IF StartsWith(OrEn(lang), Te) THEN TeluguPrefix ELSE <<>>
        m == SearchSentence(cleaned)
        base == IF m # <<>> THEN Strip(m) ELSE Strip(Take(cleaned, SummaryCap))
    IN  IF cleaned = <<>> THEN NoContent ELSE prefix \o base

\* Variant: the slice one character too long
HeuristicSummaryOffByOne(text, lang) ==
    LET cleaned == Strip(SubWhitespace(text))
        prefix == IF StartsWith(Lower(OrEn(lang)), Te) THEN TeluguPrefix ELSE <<>>
        m == SearchSentence(cleaned)
        base == IF m # <<>> THEN Strip(m) ELSE Strip(Take(cleaned, SummaryCap + 1))
    IN  IF cleaned = <<>> THEN NoContent ELSE prefix \o base

_heuristic_summary(text, lang) ==
    LET cleaned == Strip(SubWhitespace(text))
        prefix == IF StartsWith(Lower(OrEn(lang)), Te) THEN TeluguPrefix ELSE <<>>
        m == SearchSentence(cleaned)
        base == IF m # <<>> THEN Strip(m) ELSE Strip(Take(cleaned, SummaryCap))
    IN  IF cleaned = <<>> THEN NoContent ELSE prefix \o base

----------------------------------------------------------------------------
(* _extract_actions, main.py:96-127 *)

KeywordList ==
    << <<"s","c","h","e","d","u","l","e">>,
       <<"r","e","s","c","h","e","d","u","l","e">>,
       <<"m","e","e","t","i","n","g">>,
       <<"r","e","v","i","e","w">>,
       <<"s","u","b","m","i","t">>,
       <<"r","e","p","o","r","t">>,
       <<"c","a","l","l">>,
       <<"n","o","t","i","f","y">>,
       <<"s","e","n","d">>,
       <<"p","r","e","p","a","r","e">>,
       <<"f","o","l","l","o","w"," ","u","p">>,
       <<"f","o","l","l","o","w","-","u","p">>,
       <<"r","e","m","i","n","d">>,
       <<"e","s","c","a","l","a","t","e">>,
       <<"a","p","p","r","o","v","e">>,
       <<"c","i","r","c","u","l","a","t","e">>,
       <<"a","s","s","i","g","n">>,
       <<"d","e","a","d","l","i","n","e">>,
       <<"a","r","r","a","n","g","e">>,
       <<"b","r","i","e","f">> >>

MaxActions == 10

Fallback ==
    <<"R","e","v","i","e","w"," ","t","h","e"," ","m","e","s","s","a","g","e"," ",
      "a","n","d"," ","a","s","s","i","g","n"," ","t","o"," ","t","h","e"," ",
      "c","o","n","c","e","r","n","e","d"," ","d","e","p","a","r","t","m","e","n","t",".">>

Please == <<"p","l","e","a","s","e">>
VerbEndings == {"e", "d", "n", "y"}
Letters == UpperSet \cup LowerSet

\* any(k in low for k in action_keywords)
HasKeyword(low, kws) == \E n \in 1..Len(kws) : Contains(low, kws[n])

\* The index after the `please\s+` a line starts with, 0 when it does not start so
AfterPlease(line) ==
    IF ~StartsWith(line, Please) THEN 0
    ELSE LET g == SkipLeft(line, Len(Please) + 1, WhiteSpace)
         IN  IF g > Len(Please) + 1 THEN g ELSE 0

\* ([a-zA-Z]+)(\s+)[A-Za-z] matched at index i: the word, <<>> when no match.
\* Both runs are greedy and neither can give a character back: the character
\* after a shorter word is a letter, and after a shorter gap a whitespace.
WordGapLetter(line, i) ==
    LET e == SkipLeft(line, i, Letters)
        f == SkipLeft(line, e, WhiteSpace)
    IN  IF e > i /\ f > e /\ f <= Len(line) /\ IsLetter(line[f])
        THEN SubSeq(line, i, e - 1) ELSE <<>>

\* re.match(r"^(please\s+)?([a-zA-Z]+)(\s+)[A-Za-z]", line): group 2, <<>> when
\* the line does not match. The optional group is tried first; when the rest
\* fails after it, the match is retried without it.
ImperativeWord(line) ==
    LET g == AfterPlease(line)
        withPlease == IF g > 0 THEN WordGapLetter(line, g) ELSE <<>>
    IN  IF withPlease # <<>> THEN withPlease ELSE WordGapLetter(line, 1)

\* re.match(r"^(please\s+)?([a-zA-Z]+)", line).group(2), for a line that starts
\* with a letter
TokenWord(line) ==
    LET g == AfterPlease(line)
        i == IF g > 0 /\ g <= Len(line) /\ IsLetter(line[g]) THEN g ELSE 1
    IN  SubSeq(line, i, SkipLeft(line, i, Letters) - 1)

\* The body of the loop over lines: whether the line is appended to actions
LineIsAction(line, kws) ==
    IF HasKeyword(Lower(line), kws) THEN TRUE
    ELSE IF ImperativeWord(line) # <<>>
         THEN LET token == Lower(TokenWord(line))
              IN  token[Len(token)] \in VerbEndings
         ELSE FALSE

\* lines = [l.strip(" -•\t") for l in text.splitlines() if l.strip()]
StrippedLines(text) ==
    LET NonBlank(l) == Strip(l) # <<>>
        raw == SelectSeq(SplitLines(text), NonBlank)
    IN  [i \in 1..Len(raw) |-> StripChars(raw[i], BulletChars)]

\* actions after the loop over lines
Candidates(text, kws) ==
    LET Test(line) == LineIsAction(line, kws)
    IN  SelectSeq(StrippedLines(text), Test)

RECURSIVE DedupeLoop(_, _, _, _)
DedupeLoop(actions, i, seen, deduped) ==
    IF i > Len(actions) THEN deduped
    ELSE LET key == Lower(actions[i])
         IN  IF key \notin seen
             THEN DedupeLoop(actions, i + 1, seen \cup {key}, Append(deduped, actions[i]))
             ELSE DedupeLoop(actions, i + 1, seen, deduped)

RECURSIVE DedupeExactLoop(_, _, _, _)
DedupeExactLoop(actions, i, seen, deduped) ==
    IF i > Len(actions) THEN deduped
    ELSE IF actions[i] \notin seen
         THEN DedupeExactLoop(actions, i + 1, seen \cup {actions[i]}, Append(deduped, actions[i]))
         ELSE DedupeExactLoop(actions, i + 1, seen, deduped)

\* Variant: the key of a line is the line itself, not its lower-case form
DedupeExact(actions) == DedupeExactLoop(actions, 1, {}, <<>>)

\* "Deduplicate while keeping order"
Dedupe(actions) == DedupeLoop(actions, 1, {}, <<>>)

\* Variant: the generic action is never proposed
ExtractActionsNoFallback(text, kws) ==
    Take(Dedupe(Candidates(text, kws)), MaxActions)

\* Variant: the generic action is proposed whenever the text is not empty
ExtractActionsUnstripped(text, kws) ==
    LET deduped == Dedupe(Candidates(text, kws))
        final == IF deduped = <<>> /\ text # <<>> THEN <<Fallback>> ELSE deduped
    IN  Take(final, MaxActions)

\* Variant: the list cut to 10 entries before it is deduplicated
ExtractActionsCapFirst(text, kws) ==
    LET deduped == Dedupe(Take(Candidates(text, kws), MaxActions))
    IN  IF deduped = <<>> /\ Strip(text) # <<>> THEN <<Fallback>> ELSE deduped

_extract_actions(text, kws) ==
    LET deduped == Dedupe(Candidates(text, kws))
        final == IF deduped = <<>> /\ Strip(text) # <<>> THEN <<Fallback>> ELSE deduped
    IN  Take(final, MaxActions)

----------------------------------------------------------------------------
(* POST /analyze, main.py:130-134.  The endpoint is a plain def, which the  *)
(* framework runs on a thread pool: requests are handled concurrently, one  *)
(* per worker, and a handler can be preempted between its statements.       *)

NumWorkers == 2
Workers == 1..NumWorkers

Idle == [pc |-> "idle", text |-> <<>>, lang |-> None, summary |-> <<>>, actions |-> <<>>]

Request(text, lang) ==
    [pc |-> "received", text |-> text, lang |-> lang, summary |-> <<>>, actions |-> <<>>]

\* summary = _heuristic_summary(req.text, req.lang or "en")
Summarize(w) ==
    /\ workers[w].pc = "received"
    /\ workers' = [workers EXCEPT ![w].pc = "summarized",
                     ![w].summary = _heuristic_summary(workers[w].text, OrEn(workers[w].lang))]
    /\ UNCHANGED <<action_keywords, responses>>

\* Variant: the extractor adds the lines it finds to the keyword list
ExtractLearning(w) ==
    /\ workers[w].pc = "summarized"
    /\ workers' = [workers EXCEPT ![w].pc = "extracted",
                     ![w].actions = _extract_actions(workers[w].text, action_keywords)]
    /\ action_keywords' =
          action_keywords \o
              [i \in 1..Len(Candidates(workers[w].text, action_keywords)) |->
                  Lower(Candidates(workers[w].text, action_keywords)[i])]
    /\ UNCHANGED responses

\* actions = _extract_actions(req.text)
Extract(w) ==
    /\ workers[w].pc = "summarized"
    /\ workers' = [workers EXCEPT ![w].pc = "extracted",
                     ![w].actions = _extract_actions(workers[w].text, action_keywords)]
    /\ UNCHANGED <<action_keywords, responses>>

\* return AnalyzeResponse(summary=summary, actions=actions)
Respond(w) ==
    /\ workers[w].pc = "extracted"
    /\ responses' = responses \cup
          {[text |-> workers[w].text, lang |-> workers[w].lang,
            summary |-> workers[w].summary, actions |-> workers[w].actions]}
    /\ workers' = [workers EXCEPT ![w] = Idle]
    /\ UNCHANGED action_keywords

\* A request arrives (text: str, lang: Optional[str] = "en") and a free worker takes it
Receive(w, text, lang) ==
    /\ workers[w].pc = "idle"
    /\ workers' = [workers EXCEPT ![w] = Request(text, lang)]
    /\ UNCHANGED <<action_keywords, responses>>

----------------------------------------------------------------------------
(* Requests *)

Fill(c, n) == [i \in 1..n |-> c]

TE == <<"T","E">>
TeIN == <<"t","e","-","I","N">>
Langs == {En, Te, TE, TeIN, <<"t">>, <<>>, None}

RECURSIVE Concats(_, _)
\* the texts made of at most n pieces of the pool
Concats(pool, n) ==
    IF n = 0 THEN {<<>>}
    ELSE LET shorter == Concats(pool, n - 1)
         IN  shorter \cup {t \o pool[i] : t \in shorter, i \in 1..Len(pool)}

\* Texts around the limits of the summary: 150 characters, sentences of 10 to 200
MaxPieces == 3
SummaryPieces ==
    << Fill("a", SummaryCap - 1), Fill("a", SentenceMin - 1), <<"b">>, <<" ">>,
       <<"\n">>, <<".">>, <<"?">>, Fill(" ", SummaryCap + 1) >>
SummaryTexts == Concats(SummaryPieces, MaxPieces)

\* Texts of a few lines of every kind the extractor tells apart
MaxShortLines == 2
LinePool ==
    << <<"c","a","l","l">>,
       <<"C","a","l","l">>,
       <<"-"," ","c","a","l","l">>,
       <<"c","a","l","l"," ","-">>,
       <<"B","u","y"," ","a">>,
       <<"\t","B","U","Y"," ","a"," ">>,
       <<"g","o"," ","a">>,
       <<"p","l","e","a","s","e"," ","g","o">>,
       <<"p","l","e","a","s","e"," ","b","u","y">>,
       <<"p","l","e","a","s","e"," ","g","o"," ","a">>,
       <<"P","l","e","a","s","e"," ","g","o"," ","a">>,
       <<"h","e","l","l","o">>,
       <<"h","e","l","l","o"," ","w","o","r","l","d">>,
       <<"-","-">>,
       <<" ">>,
       <<NBSP,"B","u","y"," ","a">>,
       <<Bullet,"s","e","n","d","\r","\n","f","i","x"," ","i","t">> >>

RECURSIVE JoinLines(_)
\* "\n".join(lines)
JoinLines(lines) ==
    IF Len(lines) = 0 THEN <<>>
    ELSE IF Len(lines) = 1 THEN lines[1]
    ELSE lines[1] \o <<"\n">> \o JoinLines(Tail(lines))

RECURSIVE LineSeqs(_)
LineSeqs(n) ==
    IF n = 0 THEN {<<>>}
    ELSE LET shorter == LineSeqs(n - 1)
         IN  shorter \cup {Append(ls, LinePool[i]) : ls \in shorter, i \in 1..Len(LinePool)}

ShortTexts == {JoinLines(ls) : ls \in LineSeqs(MaxShortLines)}

\* Texts of many distinct action lines, "buy a", "call b", "buy c", ..., with at
\* most one more line put in: a repeat in other letters, or a line that is no action
MaxLines == 11
ActionLine(i) ==
    (IF i % 2 = 1 THEN <<"b","u","y"," ">> ELSE <<"c","a","l","l"," ">>)
        \o <<LowerLetters[i]>>
ExtraLines == {<<"B","U","Y"," ","a">>, <<"C","A","L","L"," ","b">>, <<"g","o"," ","a">>}
ManyLines(n) == [i \in 1..n |-> ActionLine(i)]
InsertAt(ls, k, x) == SubSeq(ls, 1, k) \o <<x>> \o SubSeq(ls, k + 1, Len(ls))
LongTexts ==
    {JoinLines(ManyLines(n)) : n \in 0..MaxLines}
    \cup UNION {{JoinLines(InsertAt(ManyLines(n), k, x)) : k \in {0, 1, n}, x \in ExtraLines} :
                 n \in 1..MaxLines}

ActionTexts == ShortTexts \cup LongTexts

\* The requests of the concurrent runs
HelloWorld == <<"h","e","l","l","o"," ","w","o","r","l","d">>
FewTexts == {<<"B","u","y"," ","a">>, <<"g","o"," ","B","u","y"," ","a">>}
FewLangs == {En, TE}

----------------------------------------------------------------------------
(* Specifications *)

NoWorker == [w \in Workers |-> Idle]

Init ==
    /\ action_keywords = KeywordList
    /\ workers = NoWorker
    /\ responses = {}

Next ==
    \E w \in Workers :
        \/ \E text \in FewTexts, lang \in FewLangs : Receive(w, text, lang)
        \/ Summarize(w)
        \/ Extract(w)
        \/ Respond(w)

\* Any number of requests, handled concurrently
Spec == Init /\ [][Next]_vars

\* One request, in the hands of worker 1
OneRequest(texts, langs) ==
    /\ action_keywords = KeywordList
    /\ \E text \in texts, lang \in langs :
          workers = [NoWorker EXCEPT ![1] = Request(text, lang)]
    /\ responses = {}

HandleOne == Summarize(1) \/ Extract(1) \/ Respond(1)

InitSummary == OneRequest(SummaryTexts, Langs)
SpecSummary == InitSummary /\ [][HandleOne]_vars

InitActions == OneRequest(ActionTexts, {En})
SpecActions == InitActions /\ [][HandleOne]_vars

----------------------------------------------------------------------------
(* What the claims speak of *)

\* The text has a character that is not whitespace: it is not empty after
\* whitespace runs are collapsed and the ends trimmed
NonBlankText(text) == \E i \in 1..Len(text) : ~IsSpace(text[i])

\* The language starts with "te" in any letter case
TeluguLang(lang) ==
    /\ lang # None
    /\ Len(lang) >= 2
    /\ lang[1] \in {"t", "T"}
    /\ lang[2] \in {"e", "E"}

\* The summary without the language prefix
SansPrefix(summary, lang) ==
    IF TeluguLang(lang) /\ StartsWith(summary, TeluguPrefix)
    THEN SubSeq(summary, Len(TeluguPrefix) + 1, Len(summary))
    ELSE summary

\* The text with whitespace runs collapsed and the ends trimmed
Collapsed(text) == Strip(SubWhitespace(text))

NoSentenceEnd(text) == \A i \in 1..Len(text) : text[i] \notin SentenceEnd

TrimRight(s) == SubSeq(s, 1, SkipRight(s, Len(s), WhiteSpace))

Range(f) == {f[i] : i \in DOMAIN f}

\* The candidates of a text: the lines the loop of _extract_actions records
CandidatesOf(text) == Candidates(text, KeywordList)

\* The indices of the candidates that repeat no earlier one, letter case aside
FirstOccurrences(c) ==
    {i \in 1..Len(c) : \A j \in 1..(i - 1) : Lower(c[j]) # Lower(c[i])}

\* The k-th smallest element of a set of numbers
Kth(S, k) == CHOOSE i \in S : Cardinality({j \in S : j <= i}) = k

----------------------------------------------------------------------------
(* Claims *)

\* C1: the actions of every response are at most 10, and no two of them are
\* equal when compared case-insensitively.
C1_AtMostTenDistinct ==
    \A r \in responses :
        /\ Len(r.actions) <= 10
        /\ \A i, j \in 1..Len(r.actions) :
              i # j => Lower(r.actions[i]) # Lower(r.actions[j])

\* C1 witness: a text with more than 10 candidates, two of them equal up to
\* letter case, was answered
C1_Witness ==
    \E r \in responses :
        /\ Len(CandidatesOf(r.text)) > 10
        /\ Cardinality(FirstOccurrences(CandidatesOf(r.text))) < Len(CandidatesOf(r.text))
        /\ Len(r.actions) = 10

NoLineMatches(text) ==
    \A i \in 1..Len(StrippedLines(text)) : ~LineIsAction(StrippedLines(text)[i], KeywordList)

\* C2 as stated: for every non-empty text in which no line matches the keyword
\* test or the imperative heuristic, the actions are exactly the generic fallback.
C2_Original ==
    \A r \in responses :
        (r.text # <<>> /\ NoLineMatches(r.text)) => r.actions = <<Fallback>>

\* C2 amended: for every text that is not blank (not empty and not whitespace
\* only) in which no line matches the keyword test or the imperative heuristic,
\* the actions are exactly the generic fallback.
C2_FallbackWhenNotBlank ==
    \A r \in responses :
        (NonBlankText(r.text) /\ NoLineMatches(r.text)) => r.actions = <<Fallback>>

\* C2 witness: "hello world" was answered with the fallback alone
C2_Witness ==
    \E r \in responses :
        /\ r.text = HelloWorld
        /\ NoLineMatches(r.text)
        /\ r.actions = <<Fallback>>

\* C3: the summary is non-empty whenever the text is non-empty after collapsing
\* whitespace and trimming, and it is the fixed no-content message otherwise.
C3_SummaryNonEmpty ==
    \A r \in responses :
        /\ NonBlankText(r.text) => r.summary # <<>>
        /\ ~NonBlankText(r.text) => r.summary = NoContent

\* C3 witness: a text with content, and with whitespace that collapsing removes,
\* was summarised
C3_Witness ==
    \E r \in responses :
        /\ NonBlankText(r.text)
        /\ Len(r.text) > Len(Collapsed(r.text))
        /\ r.summary # <<>>
        /\ r.summary # NoContent

\* C4 as stated: for every lang that starts with "te" in any letter case and for
\* every text, the summary begins with "[Telugu] ".
C4_Original ==
    \A r \in responses :
        TeluguLang(r.lang) => StartsWith(r.summary, TeluguPrefix)

\* C4 amended: for every lang that starts with "te" in any letter case and for
\* every text that is not empty after collapsing whitespace and trimming, the
\* summary begins with "[Telugu] ".
C4_TeluguPrefixWhenNotBlank ==
    \A r \in responses :
        (TeluguLang(r.lang) /\ NonBlankText(r.text)) => StartsWith(r.summary, TeluguPrefix)

\* C4 witness: a text with content was summarised for lang "TE"
C4_Witness ==
    \E r \in responses :
        /\ r.lang = TE
        /\ NonBlankText(r.text)
        /\ StartsWith(r.summary, TeluguPrefix)

\* C5 as stated: for every non-empty text with none of '.', '?', '!' and longer
\* than 150, the summary without the language prefix is the first 150 characters
\* of the whitespace-collapsed text.
C5_Original ==
    \A r \in responses :
        (r.text # <<>> /\ NoSentenceEnd(r.text) /\ Len(r.text) > 150)
            => SansPrefix(r.summary, r.lang) = Take(Collapsed(r.text), 150)

\* C5 amended: for every text that is not whitespace only, has none of '.', '?',
\* '!' and is longer than 150, the summary without the language prefix is the
\* first 150 characters of the whitespace-collapsed text with the whitespace at
\* their end removed.
C5_First150Trimmed ==
    \A r \in responses :
        (NonBlankText(r.text) /\ NoSentenceEnd(r.text) /\ Len(r.text) > 150)
            => SansPrefix(r.summary, r.lang) = TrimRight(Take(Collapsed(r.text), 150))

\* C5 witness: a text was summarised whose collapsed form is longer than 150 and
\* has a space as its 150th character
C5_Witness ==
    \E r \in responses :
        /\ NoSentenceEnd(r.text)
        /\ Len(Collapsed(r.text)) > 150
        /\ Collapsed(r.text)[150] = " "
        /\ Len(SansPrefix(r.summary, r.lang)) = 149

\* C6: for every text that is empty or whitespace only, and any lang, the summary
\* is "No content provided." and the actions are empty.
C6_BlankText ==
    \A r \in responses :
        ~NonBlankText(r.text) => (r.summary = NoContent /\ r.actions = <<>>)

\* C6 witness: a whitespace-only text was answered for lang "te-IN"
C6_Witness ==
    \E r \in responses :
        /\ r.text # <<>>
        /\ ~NonBlankText(r.text)
        /\ r.lang = TeIN
        /\ r.summary = NoContent
        /\ r.actions = <<>>

\* C7: whatever the interleaving of requests, two requests with the same text and
\* lang got the same response, each response is the one the request gets when it
\* is handled alone, and the keyword list is the one the program started with.
C7_Stateless ==
    /\ action_keywords = KeywordList
    /\ \A r1, r2 \in responses :
          (r1.text = r2.text /\ r1.lang = r2.lang) => r1 = r2
    /\ \A r \in responses :
          /\ r.summary = _heuristic_summary(r.text, OrEn(r.lang))
          /\ r.actions = _extract_actions(r.text, KeywordList)

\* C7 witness: every request has been answered, one of them is being handled
\* again, and another worker is in the middle of a different request
C7_Witness ==
    /\ \A text \in FewTexts, lang \in FewLangs :
          \E r \in responses : r.text = text /\ r.lang = lang
    /\ \E w1, w2 \in Workers :
          /\ workers[w1].pc = "extracted"
          /\ workers[w2].pc = "summarized"
          /\ workers[w1].text # workers[w2].text

\* C8: when a text has a candidate, the actions are the first 10 (or all, if
\* fewer) candidates that repeat no earlier one case-insensitively, in the order
\* and the spelling of their first occurrence.
C8_FirstTenDistinct ==
    \A r \in responses :
        LET c == CandidatesOf(r.text)
            F == FirstOccurrences(c)
        IN  c # <<>> =>
              /\ Len(r.actions) = (IF Cardinality(F) < 10 THEN Cardinality(F) ELSE 10)
              /\ \A k \in 1..Len(r.actions) : r.actions[k] = c[Kth(F, k)]

\* C8 witness: a text with more than 10 candidates, one of the first 10 a repeat
\* of an earlier one, was answered with 10 actions
C8_Witness ==
    \E r \in responses :
        LET c == CandidatesOf(r.text)
        IN  /\ Len(c) > 10
            /\ \E i \in 1..10 : i \notin FirstOccurrences(c)
            /\ Len(r.actions) = 10

\* C9 as stated: a line with no keyword that matches the imperative pattern is a
\* candidate if and only if the word that match captures, lower-cased, ends in
\* 'e', 'd', 'n' or 'y'; a line with no keyword that does not match the pattern
\* is never a candidate.
C9_Original ==
    \A r \in responses :
        \A line \in Range(StrippedLines(r.text)) :
            ~HasKeyword(Lower(line), KeywordList) =>
                LET word == Lower(ImperativeWord(line))
                IN  line \in Range(CandidatesOf(r.text))
                        <=> (word # <<>> /\ word[Len(word)] \in {"e", "d", "n", "y"})

\* C10 as stated: for every line that is non-empty after stripping and contains a
\* keyword case-insensitively, the candidate recorded is the line with only its
\* surrounding whitespace and its leading bullet characters removed.
C10_Original ==
    \A r \in responses :
        \A l \in Range(SplitLines(r.text)) :
            (Strip(l) # <<>> /\ HasKeyword(Lower(l), KeywordList)) =>
                LET t == Strip(l)
                    claimed == SubSeq(t, SkipLeft(t, 1, BulletChars), Len(t))
                IN  claimed \in Range(CandidatesOf(r.text))

====
